---- MODULE Spec2Model ----
(***************************************************************************)
(* Lead lifecycle of the admin dashboard: enquiry ingestion with           *)
(* deduplication (src/lib/leadCapture.ts), the stage changes issued from   *)
(* the lead details drawer (components/LeadDetailsDrawer.tsx) through the  *)
(* lead management page (components/LeadManagementPage.tsx), the lead form *)
(* (components/LeadForm.tsx) and the two tables crm_leads and              *)
(* crm_service_requests (database/migrations).                             *)
(*                                                                         *)
(* A text is a sequence of symbols; null, undefined and '' are all the     *)
(* empty sequence, because the code only ever tests them for truthiness.   *)
(***************************************************************************)
EXTENDS Integers, Sequences, FiniteSets, TLC

\* ------------------------------------------------------------------ bounds
\* rows that crm_leads can hold where operators work at the drawer and the form
MaxLeads == 1
\* rows that crm_leads can hold where only the public enquiry form is at work
MaxEnquiryLeads == 3
\* rows that crm_leads can hold where users sign in
MaxLoginLeads == 2
MaxRequests == 3
MaxClock == 2
MaxSignInLeads == 3
MaxListed == 1

\* ------------------------------------------------------------ value spaces
Clients == {"c1", "c2"}
\* the ids of the signed-in users
Users == {1, 2}
\* null in an id or timestamp column (ids and times start at 1)
Null == 0
NoText == << >>

LeadStages == {"New", "Qualifying", "Qualified", "Converted", "Disqualified"}
LeadSources == {"Login", "Enquiry", "Manual"}

\* what the drawer's reason textarea can hold at a click: what the operator
\* typed, or the stored reason it was filled with when the drawer opened
ReasonTexts == {NoText, <<" ">>, <<" ", "x">>, <<"x">>}
\* what an admin can enter into the lead form
FormEmails == {NoText, <<"a">>}
FormPhones == {NoText}
FormReasons == {NoText, <<"x">>}
\* the profiles of the users who sign in
LoginProfiles ==
  [user_id : Users, email : {NoText, <<"a">>},
   user_segment : {"internal", "customer"}]
\* what the public enquiry form submits while operators are at work
EnquiryInputs ==
  {[contact_email |-> NoText, contact_phone |-> NoText],
   [contact_email |-> <<"a">>, contact_phone |-> NoText]}
\* what the public enquiry form submits when it is looked at on its own
AllEnquiryInputs ==
  [contact_email : {NoText, <<" ">>, <<"a">>, <<"A", " ">>, <<"no-email">>},
   contact_phone : {NoText, <<" ">>, <<"5">>}]

\* ---------------------------------------------------------------- strings
RECURSIVE trimStart(_)
trimStart(s) ==
  IF s = << >> THEN s
  ELSE IF Head(s) = " " THEN trimStart(Tail(s)) ELSE s

RECURSIVE trimEnd(_)
trimEnd(s) ==
  IF s = << >> THEN s
  ELSE IF s[Len(s)] = " " THEN trimEnd(SubSeq(s, 1, Len(s) - 1)) ELSE s

trim(s) == trimEnd(trimStart(s))

lowerSymbol(ch) ==
  CASE ch = "A" -> "a"
    [] ch = "B" -> "b"
    [] OTHER -> ch

toLowerCase(s) == [i \in 1..Len(s) |-> lowerSymbol(s[i])]

normalizeNoTrim(value) == toLowerCase(value)

normalizeNoLower(value) == trim(value)

normalize(value) == toLowerCase(trim(value))

dedupKeyOf(email, phone) ==
  (IF email # NoText THEN email ELSE <<"no-email">>)
    \o <<"|">>
    \o (IF phone # NoText THEN phone ELSE <<"no-phone">>)

\* ------------------------------------------------------- state machine table
getStageActions(stage) ==
  CASE stage = "New" -> {"Qualifying"}
    [] stage = "Qualifying" -> {"Qualified", "Disqualified"}
    [] stage = "Qualified" -> {"Converted"}
    [] stage = "Converted" -> {}
    [] stage = "Disqualified" -> {"Qualifying"}
    [] OTHER -> {}

ENABLE_LEAD_CONVERSION == TRUE

\* --------------------------------------------------------------- variables
VARIABLES
  leads,            \* table crm_leads: row i has id i
  requests,         \* table crm_service_requests: row i has id i
  now,              \* the wall clock read by new Date()
  selectedLead,     \* per client: the lead object handed to the drawer
  pc,               \* per client: where its handleStageChange run stands
  run,              \* per client: the updates of a conversion in flight
  shown,            \* what the step just taken displayed (showToast, setToast)
                    \* threw or returned; Quiet when it did none of these
  calls,            \* the remote calls that the step just taken issued, in order
  session,          \* per client: useAuth().user and ability.can('update', 'Lead')
  conversionEnabled, \* the value that ENABLE_LEAD_CONVERSION was built with
  signin,           \* the auth context: signIn's position and result, and the
                    \* state it set (setSupabaseUser, setSession, setProfile)
  task,             \* per caller: its run of createLoginLeadIfNeeded
  view              \* the lead page: the loaded list, the search box, the two
                    \* filters and the list it renders

vars == <<leads, requests, now, selectedLead, pc, run, shown, calls, session,
          conversionEnabled, signin, task, view>>

\* what a step leaves alone whatever it does
config == <<session, conversionEnabled>>
auth == <<signin, task>>

\* the row that the column defaults of crm_leads give
DefaultLead ==
  [contact_email |-> NoText, contact_phone |-> NoText, source |-> "Manual",
   stage |-> "New", dedup_key |-> NoText, disqualify_reason |-> NoText,
   qualified_at |-> Null, converted_at |-> Null, service_request_id |-> Null,
   related_user_id |-> Null, owner_id |-> Null]

\* the row that createLoginLeadIfNeeded inserts for a profile
loginLeadOf(userProfile) ==
  [DefaultLead EXCEPT !.contact_email = userProfile.email,
                      !.related_user_id = userProfile.user_id,
                      !.owner_id = userProfile.user_id,
                      !.source = "Login", !.stage = "New"]

\* no profile: useState<AppUserProfile | null>(null)
NoProfile == [user_id |-> Null]

\* the two callers of createLoginLeadIfNeeded: signIn, and the callback that
\* the provider's effect subscribes with onAuthStateChange
Tasks == {"signIn", "onAuthStateChange"}

\* a caller that has not started a run
NoTask == [pc |-> "off", userProfile |-> NoProfile, warned |-> ""]

\* the auth context after construction: nobody signed in, no call of signIn
SignedOut ==
  [pc |-> "idle", supabaseUser |-> Null, session |-> Null,
   profile |-> NoProfile, error |-> "", returned |-> ""]

\* the lead page before list() has answered: useCRUD's data is empty, the
\* search box is '' and both filters are 'All'
NoView ==
  [leads |-> << >>, searchQuery |-> NoText, stageFilter |-> "All",
   sourceFilter |-> "All", filteredLeads |-> << >>]

\* the lead of user 1 whose profile has the email ''
\* (buildProfileFromUser: user.email || '')
LoginLead ==
  loginLeadOf([user_id |-> 1, email |-> NoText, user_segment |-> "internal"])

NoLead == [id |-> 0]

\* what a step displays or throws, and the id that createEnquiryLead returns
Show(text) == [text |-> text, id |-> 0]
Returned(id) == [text |-> "returned", id |-> id]
Quiet == Show("")
\* the success toast of handleStageChange
LeadMoved(nextStage) == Show("Lead moved to " \o nextStage \o ".")
Accepted == ""
NoRun == [updates |-> << >>]
NoCalls == << >>
\* a signed-in operator who may update leads; named: user.name is there
Operator(user) == [user |-> user, named |-> TRUE, canUpdate |-> TRUE]

LeadIds == 1..Len(leads)

\* a lead as the drawer holds it: the row's id and the columns the drawer reads
leadObject(id) ==
  [id |-> id, stage |-> leads[id].stage, source |-> leads[id].source,
   contact_email |-> leads[id].contact_email,
   contact_phone |-> leads[id].contact_phone,
   service_request_id |-> leads[id].service_request_id,
   owner_id |-> leads[id].owner_id]

\* The table starts empty or with the lead of one login without an email.
Init ==
  /\ leads \in {<< >>, <<LoginLead>>}
  /\ requests = << >>
  /\ now = 1
  /\ selectedLead = [c \in Clients |-> NoLead]
  /\ pc = [c \in Clients |-> "idle"]
  /\ run = [c \in Clients |-> NoRun]
  /\ shown = Quiet
  /\ calls = NoCalls
  /\ session = [c \in Clients |-> Operator(IF c = "c1" THEN 1 ELSE 2)]
  /\ conversionEnabled = ENABLE_LEAD_CONVERSION
  /\ signin = SignedOut
  /\ task = [t \in Tasks |-> NoTask]
  /\ view = NoView

\* time passes
Tick ==
  /\ now < MaxClock
  /\ now' = now + 1
  /\ shown' = Quiet
  /\ calls' = NoCalls
  /\ UNCHANGED <<leads, requests, selectedLead, pc, run, config, auth, view>>

\* ------------------------------------------------------ createEnquiryLead
\* rows that the partial unique index uidx_crm_leads_enquiry_dedup holds
\* under the given key
enquiryRowsWithKey(rows, key) ==
  {i \in 1..Len(rows) : rows[i].source = "Enquiry" /\ rows[i].dedup_key = key}

\* the columns of the upsert's payload
enquiryPayload(input, dedupKey) ==
  [contact_email |-> input.contact_email,
   contact_phone |-> input.contact_phone,
   source |-> "Enquiry",
   stage |-> "New",
   dedup_key |-> dedupKey]

\* the row after UPDATE ... SET <updates>
applyUpdates(row, updates) ==
  [f \in DOMAIN row |-> IF f \in DOMAIN updates THEN updates[f] ELSE row[f]]

createEnquiryLeadChecksLate(input, capacity) ==
  LET email == normalize(input.contact_email)
      phone == normalize(input.contact_phone)
      row == applyUpdates(DefaultLead,
               enquiryPayload(input, dedupKeyOf(email, phone)))
  IN
  /\ UNCHANGED <<requests, now, selectedLead, pc, run, config, auth, view>>
  /\ calls' = <<"upsert">>
  /\ IF Len(leads) < capacity /\ enquiryRowsWithKey(leads, row.dedup_key) = {}
     THEN leads' = Append(leads, row)
     ELSE UNCHANGED leads
  /\ IF email = NoText /\ phone = NoText
     THEN shown' = Show("Email or phone is required")
     ELSE shown' = Returned(Len(leads'))

\* capacity: how many rows the table can hold
createEnquiryLead(input, capacity) ==
  LET email == normalize(input.contact_email)
      phone == normalize(input.contact_phone)
      dedupKey == dedupKeyOf(email, phone)
      hit == enquiryRowsWithKey(leads, dedupKey)
  IN
  /\ UNCHANGED <<requests, now, selectedLead, pc, run, config, auth, view>>
  /\ IF email = NoText /\ phone = NoText
     THEN /\ shown' = Show("Email or phone is required")
          /\ calls' = NoCalls
          /\ UNCHANGED leads
     ELSE /\ calls' = <<"upsert">>
          /\ \/ \* the upsert fails in the store
                /\ shown' = Show("upsert error")
                /\ UNCHANGED leads
             \/ \* ON CONFLICT (dedup_key) DO UPDATE SET every column of the payload
                /\ hit # {}
                /\ \E i \in hit :
                     /\ leads' = [leads EXCEPT ![i] =
                                    applyUpdates(@, enquiryPayload(input, dedupKey))]
                     /\ shown' = Returned(i)
             \/ \* no conflict: a new row, the other columns take their defaults
                /\ hit = {}
                /\ Len(leads) < capacity
                /\ leads' = Append(leads,
                     applyUpdates(DefaultLead, enquiryPayload(input, dedupKey)))
                /\ shown' = Returned(Len(leads) + 1)

\* ------------------------------------------------ createLoginLeadIfNeeded
openLeadsOfNone(rows, user) == {}

\* the rows that the existence check selects from: related_user_id is the
\* user's and stage is not in ("Converted","Disqualified")
openLeadsOf(rows, user) ==
  {i \in 1..Len(rows) :
     /\ rows[i].related_user_id = user
     /\ rows[i].stage \notin {"Converted", "Disqualified"}}

\* One run of createLoginLeadIfNeeded from its start to its return; every
\* failure ends in console.warn.  capacity: how many rows the table can hold
createLoginLeadIfNeeded(userProfile, capacity) ==
  LET existingLead == openLeadsOf(leads, userProfile.user_id) IN
  /\ shown' = Quiet
  /\ UNCHANGED <<requests, now, selectedLead, pc, run, config, auth, view>>
  /\ IF userProfile.user_segment # "internal"
     THEN calls' = NoCalls /\ UNCHANGED leads
     ELSE \/ \* no client, or the existence check fails
             /\ calls' \in {NoCalls, <<"select">>}
             /\ UNCHANGED leads
          \/ \* an open lead is found
             /\ existingLead # {}
             /\ calls' = <<"select">>
             /\ UNCHANGED leads
          \/ \* none is found: insert, which can fail
             /\ existingLead = {}
             /\ calls' = <<"select", "insert">>
             /\ \/ UNCHANGED leads
                \/ /\ Len(leads) < capacity
                   /\ leads' = Append(leads, loginLeadOf(userProfile))

\* ------------------------------------------------------- the details drawer
\* The page lists the rows with list() and hands the clicked one to the
\* drawer (setSelectedLead, setIsDrawerOpen(true)); the object is not replaced
\* when the list is reloaded.  The drawer is open iff a lead is selected; a
\* closed drawer is an open one that nobody clicks.
handleOpenDrawer(c, id) ==
  /\ pc[c] = "idle"
  /\ id \in LeadIds
  /\ selectedLead[c] # leadObject(id)
  /\ selectedLead' = [selectedLead EXCEPT ![c] = leadObject(id)]
  /\ shown' = Quiet
  /\ calls' = NoCalls
  /\ UNCHANGED <<leads, requests, now, pc, run, config, auth, view>>

canUpdateAlways(c) == TRUE

\* const canUpdate = ability.can('update', 'Lead')
canUpdate(c) == session[c].canUpdate

conversionAllowedAlways == TRUE

\* the flag as handleStageChange reads it
conversionAllowed == conversionEnabled

hasContactAlways(lead) == TRUE

hasContact(lead) == lead.contact_email # NoText \/ lead.contact_phone # NoText

stageUpdatesUntrimmed(nextStage, reason, time) ==
  [f \in {"stage"}
         \cup (IF nextStage = "Qualified" THEN {"qualified_at"} ELSE {})
         \cup (IF nextStage = "Converted" THEN {"converted_at"} ELSE {})
         \cup (IF nextStage = "Disqualified" THEN {"disqualify_reason"} ELSE {})
     |-> CASE f = "stage" -> nextStage
           [] f = "qualified_at" -> time
           [] f = "converted_at" -> time
           [] f = "disqualify_reason" -> reason]

\* the Partial<Lead> that handleStageChange builds before its first await
stageUpdates(nextStage, reason, time) ==
  [f \in {"stage"}
         \cup (IF nextStage = "Qualified" THEN {"qualified_at"} ELSE {})
         \cup (IF nextStage = "Converted" THEN {"converted_at"} ELSE {})
         \cup (IF nextStage = "Disqualified" THEN {"disqualify_reason"} ELSE {})
     |-> CASE f = "stage" -> nextStage
           [] f = "qualified_at" -> time
           [] f = "converted_at" -> time
           [] f = "disqualify_reason" -> trim(reason)]

\* updates.service_request_id = value
withField(updates, field, value) ==
  [f \in DOMAIN updates \cup {field} |->
     IF f = field THEN value ELSE updates[f]]

\* why handleStageChange returns before it builds the updates, or Accepted
stageChangeRejection(c, lead, nextStage, reason) ==
  IF ~canUpdate(c)
    THEN "You do not have permission to update leads."
  ELSE IF nextStage = "Disqualified" /\ trim(reason) = NoText
    THEN "Disqualification reason is required."
  ELSE IF lead.stage = "Converted" /\ nextStage # "Converted"
    THEN "Converted leads are read-only."
  ELSE IF nextStage = "Converted" /\ ~hasContact(lead)
    THEN "Email or phone is required to convert a lead."
  ELSE IF nextStage = "Converted" /\ ~conversionAllowed
    THEN "Lead conversion is disabled until next release."
  ELSE Accepted

failStageChangeAndWrite(c, id, updates) ==
  /\ shown' = Show("Failed to update lead stage.")
  /\ pc' = [pc EXCEPT ![c] = "idle"]
  /\ run' = [run EXCEPT ![c] = NoRun]
  /\ leads' = [leads EXCEPT ![id] = applyUpdates(@, updates)]
  /\ UNCHANGED requests

\* the catch and finally blocks of handleStageChange: the error toast,
\* setIsSaving(false), and no write of the updates built so far
failStageChange(c, id, updates) ==
  /\ shown' = Show("Failed to update lead stage.")
  /\ pc' = [pc EXCEPT ![c] = "idle"]
  /\ run' = [run EXCEPT ![c] = NoRun]
  /\ UNCHANGED <<leads, requests>>

handleUpdateLeadRevertsOnLogFailure(c, id, updates) ==
  \/ /\ failStageChange(c, id, updates)
     /\ calls' \in {<<"update">>, <<"update", "list", "log">>}
  \/ /\ leads' = [leads EXCEPT ![id] = applyUpdates(@, updates)]
     /\ pc' = [pc EXCEPT ![c] = "idle"]
     /\ run' = [run EXCEPT ![c] = NoRun]
     /\ UNCHANGED requests
     /\ \/ /\ shown' = Show("Failed to update lead stage.")
           /\ calls' = <<"update", "list">>
        \/ /\ shown' = LeadMoved(updates.stage)
           /\ calls' = <<"update", "list", "log">>

\* await onUpdate(lead.id, updates), which is handleUpdateLead: update() and
\* then list(); then logLeadActivity, the success toast and finally.  update()
\* can throw before it writes, list() after, logLeadActivity after both.
handleUpdateLead(c, id, updates) ==
  \/ /\ failStageChange(c, id, updates)
     /\ calls' = <<"update">>
  \/ /\ leads' = [leads EXCEPT ![id] = applyUpdates(@, updates)]
     /\ pc' = [pc EXCEPT ![c] = "idle"]
     /\ run' = [run EXCEPT ![c] = NoRun]
     /\ UNCHANGED requests
     /\ \/ /\ shown' = Show("Failed to update lead stage.")
           /\ calls' \in {<<"update", "list">>, <<"update", "list", "log">>}
        \/ /\ shown' = LeadMoved(updates.stage)
           /\ calls' = <<"update", "list", "log">>

existingRequestNone(rows, id) == {}

\* select id from crm_service_requests where lead_id = id
existingRequest(rows, id) == {r \in 1..Len(rows) : rows[r].lead_id = id}

\* A click on one of the drawer's action buttons, up to and including the
\* handler's first remote call: the update, or for a conversion the lookup
\* (limit 1, maybeSingle: any one of the rows found).
\* reason is the state disqualifyReason at the click: the textarea is rendered
\* whenever Disqualified is among the buttons, and holds what was typed.
\* A button is there for each of getStageActions(lead.stage) and is disabled
\* when !canUpdate || isSaving.
handleStageChange(c, nextStage, reason) ==
  LET lead == selectedLead[c]
      rejection == stageChangeRejection(c, lead, nextStage, reason)
      updates == stageUpdates(nextStage, reason, now)
      found == existingRequest(requests, lead.id)
  IN
  /\ lead # NoLead
  /\ pc[c] = "idle"
  /\ canUpdate(c)
  /\ nextStage \in getStageActions(lead.stage)
  /\ nextStage # "Disqualified" => reason = NoText
  /\ UNCHANGED <<now, selectedLead, config, auth, view>>
  /\ IF rejection # Accepted
     THEN /\ shown' = Show(rejection)
          /\ calls' = NoCalls
          /\ UNCHANGED <<leads, requests, pc, run>>
     ELSE IF nextStage # "Converted"
     THEN handleUpdateLead(c, lead.id, updates)
     ELSE IF lead.service_request_id # Null
     THEN handleUpdateLead(c, lead.id,
            withField(updates, "service_request_id", lead.service_request_id))
     ELSE /\ calls' = <<"lookup">>
          /\ \/ failStageChange(c, lead.id, updates)
             \/ /\ found # {}
                /\ \E r \in found :
                     run' = [run EXCEPT ![c] =
                        [updates |-> withField(updates, "service_request_id", r)]]
                /\ pc' = [pc EXCEPT ![c] = "update"]
                /\ shown' = Quiet
                /\ UNCHANGED <<leads, requests>>
             \/ /\ found = {}
                /\ run' = [run EXCEPT ![c] = [updates |-> updates]]
                /\ pc' = [pc EXCEPT ![c] = "insert"]
                /\ shown' = Quiet
                /\ UNCHANGED <<leads, requests>>

\* the insert into crm_service_requests of a conversion that found none
insertServiceRequest(c) ==
  LET lead == selectedLead[c] IN
  /\ pc[c] = "insert"
  /\ calls' = <<"insert">>
  /\ UNCHANGED <<now, selectedLead, config, auth, view>>
  /\ \/ failStageChange(c, lead.id, run[c].updates)
     \/ /\ Len(requests) < MaxRequests
        /\ requests' = Append(requests,
             [lead_id |-> lead.id, owner_id |-> lead.owner_id,
              source |-> lead.source, status |-> "Open",
              contact_email |-> lead.contact_email,
              contact_phone |-> lead.contact_phone])
        /\ run' = [run EXCEPT ![c].updates =
               withField(@, "service_request_id", Len(requests) + 1)]
        /\ pc' = [pc EXCEPT ![c] = "update"]
        /\ shown' = Quiet
        /\ UNCHANGED leads

\* the update that ends a conversion
updateConvertedLead(c) ==
  /\ pc[c] = "update"
  /\ UNCHANGED <<now, selectedLead, config, auth, view>>
  /\ handleUpdateLead(c, selectedLead[c].id, run[c].updates)

assignUpdatesWithStage(user) == [owner_id |-> user, stage |-> "Qualifying"]

\* the updates that handleAssignToMe hands to onUpdate: owner_id and
\* owner_name, the latter not kept as a column
assignUpdates(user) == [owner_id |-> user]

\* A click on "Assign to me", which is rendered when the drawer's lead has no
\* owner and the user has an id.  owner_name is written with owner_id and is
\* not kept as a column of its own.  Clicks during a stage change of the same
\* drawer are left out.
handleAssignToMe(c) ==
  LET lead == selectedLead[c] IN
  /\ lead # NoLead
  /\ pc[c] = "idle"
  /\ lead.owner_id = Null
  /\ session[c].user # Null
  /\ UNCHANGED <<requests, now, selectedLead, pc, run, config, auth, view>>
  /\ IF ~session[c].named
     THEN /\ shown' = Show("User info not available for assignment.")
          /\ calls' = NoCalls
          /\ UNCHANGED leads
     ELSE IF ~canUpdate(c)
     THEN /\ shown' = Show("You do not have permission to assign leads.")
          /\ calls' = NoCalls
          /\ UNCHANGED leads
     ELSE \/ /\ shown' = Show("Failed to assign lead.")
             /\ calls' = <<"update">>
             /\ UNCHANGED leads
          \/ /\ leads' = [leads EXCEPT ![lead.id] =
                            applyUpdates(@, assignUpdates(session[c].user))]
             /\ calls' = <<"update", "list">>
             /\ shown' \in {Show("Failed to assign lead."),
                            Show("Lead assigned to you.")}

\* ------------------------------------------------------------ the lead form
validateForm(formData) ==
  IF formData.contact_email = NoText /\ formData.contact_phone = NoText
    THEN "Provide at least an email or phone number."
  ELSE IF formData.stage = "Disqualified" /\ trim(formData.disqualify_reason) = NoText
    THEN "Disqualification reason is required."
  ELSE Accepted

leadPayload(formData) ==
  [contact_email |-> formData.contact_email,
   contact_phone |-> formData.contact_phone,
   source |-> formData.source,
   stage |-> formData.stage,
   disqualify_reason |->
     IF formData.stage = "Disqualified" THEN formData.disqualify_reason ELSE NoText]

\* what the form's fields can hold at a submit, less the combinations that
\* differ only in a field that handleSubmit does not look at
FormData ==
  {fd \in [contact_email : FormEmails, contact_phone : FormPhones,
           source : LeadSources, stage : LeadStages,
           disqualify_reason : FormReasons] :
     /\ fd.stage # "Disqualified" => fd.disqualify_reason = NoText
     /\ (fd.contact_email = NoText /\ fd.contact_phone = NoText)
          => (fd.source = "Manual" /\ fd.stage = "New")}

\* the partial unique index on dedup_key where source = 'Enquiry'
uniqueEnquiryKeys(rows) ==
  \A i, j \in 1..Len(rows) :
    (/\ i # j
     /\ rows[i].source = "Enquiry" /\ rows[j].source = "Enquiry"
     /\ rows[i].dedup_key # NoText)
    => rows[i].dedup_key # rows[j].dedup_key

\* the client whose user, an internal admin, works at the form
FormClient == "c1"

\* handleSubmit of the form; leadId = 0 is the form without a lead (create)
handleSubmit(leadId, formData) ==
  LET invalid == validateForm(formData)
      \* owner_id: existingLead?.owner_id || user?.id
      owner == IF leadId # 0 /\ leads[leadId].owner_id # Null
               THEN leads[leadId].owner_id
               ELSE session[FormClient].user
      payload == withField(leadPayload(formData), "owner_id", owner)
      after == IF leadId = 0
               THEN Append(leads, applyUpdates(DefaultLead, payload))
               ELSE [leads EXCEPT ![leadId] = applyUpdates(@, payload)]
  IN
  /\ leadId \in {0} \cup LeadIds
  /\ UNCHANGED <<requests, now, selectedLead, pc, run, config, auth, view>>
  /\ IF invalid # Accepted
     THEN shown' = Show(invalid) /\ calls' = NoCalls /\ UNCHANGED leads
     ELSE /\ calls' = <<IF leadId = 0 THEN "create" ELSE "update">>
          /\ \/ shown' = Show("Failed to save lead.") /\ UNCHANGED leads
             \/ /\ leadId = 0 => Len(leads) < MaxLeads
                /\ uniqueEnquiryKeys(after)
                /\ leads' = after
                /\ shown' = Show(IF leadId = 0 THEN "Lead created successfully."
                                 ELSE "Lead updated successfully.")

\* ------------------------------------------------------------ specifications
\* The steps of the drawers of the clients in cs.  With alone, a handler
\* starts only when no handler of any client is in flight.
DrawerNext(cs, alone) ==
  \/ \E c \in cs, id \in 1..MaxLeads : handleOpenDrawer(c, id)
  \/ \E c \in cs, nextStage \in LeadStages, reason \in ReasonTexts :
       /\ alone => \A d \in Clients : pc[d] = "idle"
       /\ handleStageChange(c, nextStage, reason)
  \/ \E c \in cs : insertServiceRequest(c)
  \/ \E c \in cs : updateConvertedLead(c)

\* Two operators at their drawers and the public enquiry form.
Next ==
  \/ Tick
  \/ \E input \in EnquiryInputs : createEnquiryLead(input, MaxLeads)
  \/ DrawerNext(Clients, FALSE)

Spec == Init /\ [][Next]_vars

\* The same, with the runs of handleStageChange one after the other.
NextSeq ==
  \/ Tick
  \/ \E input \in EnquiryInputs : createEnquiryLead(input, MaxLeads)
  \/ DrawerNext(Clients, TRUE)

SpecSeq == Init /\ [][NextSeq]_vars

\* One operator at the drawer, the enquiry form, and an admin at the lead form.
NextForm ==
  \/ \E input \in EnquiryInputs : createEnquiryLead(input, MaxLeads)
  \/ DrawerNext({"c1"}, FALSE)
  \/ \E leadId \in 0..MaxLeads, formData \in FormData : handleSubmit(leadId, formData)

SpecForm == Init /\ [][NextForm]_vars

\* One drawer whose user may lack a name or the capability to update leads,
\* in a build whose conversion flag is either value, and the enquiry form.
InitPolicy ==
  /\ leads \in {<< >>, <<LoginLead>>}
  /\ requests = << >>
  /\ now = 1
  /\ selectedLead = [c \in Clients |-> NoLead]
  /\ pc = [c \in Clients |-> "idle"]
  /\ run = [c \in Clients |-> NoRun]
  /\ shown = Quiet
  /\ calls = NoCalls
  /\ session \in {[c \in Clients |-> IF c = "c1" THEN s ELSE Operator(2)] :
                    s \in [user : {1}, named : BOOLEAN, canUpdate : BOOLEAN]}
  /\ conversionEnabled \in BOOLEAN
  /\ signin = SignedOut
  /\ task = [t \in Tasks |-> NoTask]
  /\ view = NoView

NextPolicy ==
  \/ \E input \in EnquiryInputs : createEnquiryLead(input, MaxLeads)
  \/ DrawerNext({"c1"}, FALSE)
  \/ handleAssignToMe("c1")

SpecPolicy == InitPolicy /\ [][NextPolicy]_vars

\* Users who sign in and one operator at the drawer, one operation after the
\* other.
NextLogin ==
  \/ \E userProfile \in LoginProfiles :
       /\ \A d \in Clients : pc[d] = "idle"
       /\ createLoginLeadIfNeeded(userProfile, MaxLoginLeads)
  \/ \E id \in 1..MaxLoginLeads : handleOpenDrawer("c1", id)
  \/ DrawerNext({"c1"}, TRUE)

SpecLogin == Init /\ [][NextLogin]_vars

\* The public enquiry form alone.
NextEnquiry ==
  \E input \in AllEnquiryInputs : createEnquiryLead(input, MaxEnquiryLeads)

SpecEnquiry == Init /\ [][NextEnquiry]_vars

\* ----------------------------------------------------------------- sign-in
\* createLoginLeadIfNeeded up to its first await: the feature flag is on and
\* a profile that is not internal returns at once
startLoginCapture(userProfile) ==
  [pc |-> IF userProfile.user_segment # "internal" THEN "done" ELSE "check",
   userProfile |-> userProfile, warned |-> ""]

\* a run that ended with console.warn(message), or silently with ""
endLoginCapture(t, message) ==
  [task EXCEPT ![t] = [@ EXCEPT !.pc = "done", !.warned = message]]

\* signIn until it awaits its run of createLoginLeadIfNeeded.  A sign-in
\* that succeeds also makes the client emit SIGNED_IN, and the wrapper
\* onAuthStateChange calls the provider's callback without waiting for it.
\* failed: signInWithEmail returned an error
signIn(userProfile, failed) ==
  /\ signin.pc # "capturing"
  /\ \A t \in Tasks : task[t].pc \in {"off", "done"}
  /\ shown' = Quiet
  /\ calls' = <<"signInWithPassword">>
  /\ UNCHANGED <<leads, requests, now, selectedLead, pc, run, config, view>>
  /\ IF failed
     THEN /\ signin' = [signin EXCEPT !.pc = "returned",
                                      !.error = "Sign in failed",
                                      !.returned = "false"]
          /\ UNCHANGED task
     ELSE /\ signin' = [pc |-> "capturing",
                        supabaseUser |-> userProfile.user_id,
                        session |-> userProfile.user_id,
                        profile |-> userProfile,
                        error |-> "", returned |-> ""]
          /\ task' = [t \in Tasks |->
                        IF t = "signIn"
                        THEN startLoginCapture(userProfile)
                        ELSE [pc |-> "fetch", userProfile |-> userProfile,
                              warned |-> ""]]

\* the SIGNED_IN callback after fetchUserProfile: with a profile it sets it
\* and starts its own run, without one it does nothing more
onSignedIn ==
  LET t == "onAuthStateChange" IN
  /\ task[t].pc = "fetch"
  /\ shown' = Quiet
  /\ calls' = <<"getUser">>
  /\ UNCHANGED <<leads, requests, now, selectedLead, pc, run, config, view>>
  /\ \/ /\ task' = [task EXCEPT ![t] = startLoginCapture(task[t].userProfile)]
        /\ signin' = [signin EXCEPT !.profile = task[t].userProfile]
     \/ /\ task' = endLoginCapture(t, "")
        /\ UNCHANGED signin

\* the existence check of a run, to the point where it awaits the insert
checkExistingLead(t) ==
  LET existingLead == openLeadsOf(leads, task[t].userProfile.user_id) IN
  /\ task[t].pc = "check"
  /\ shown' = Quiet
  /\ UNCHANGED <<leads, requests, now, selectedLead, pc, run, config, signin, view>>
  /\ \/ /\ calls' = NoCalls
        /\ task' \in {endLoginCapture(t, "Lead capture failed:"),
                      endLoginCapture(t, "Supabase client not available for lead capture")}
     \/ /\ calls' = <<"select">>
        /\ task' \in {endLoginCapture(t, "Lead capture failed:"),
                      endLoginCapture(t, "Failed to check existing lead:")}
     \/ /\ calls' = <<"select">>
        /\ existingLead # {}
        /\ task' = endLoginCapture(t, "")
     \/ /\ calls' = <<"select">>
        /\ existingLead = {}
        /\ task' = [task EXCEPT ![t].pc = "insert"]

\* the insert of a run whose check found no open lead
insertLoginLead(t) ==
  /\ task[t].pc = "insert"
  /\ shown' = Quiet
  /\ calls' = <<"insert">>
  /\ UNCHANGED <<requests, now, selectedLead, pc, run, config, signin, view>>
  /\ \/ /\ Len(leads) < MaxSignInLeads
        /\ leads' = Append(leads, loginLeadOf(task[t].userProfile))
        /\ task' = endLoginCapture(t, "")
     \/ /\ UNCHANGED leads
        /\ task' \in {endLoginCapture(t, "Failed to create login lead:"),
                      endLoginCapture(t, "Lead capture failed:")}

\* signIn after its run of createLoginLeadIfNeeded came back
signInReturnsCaptureResult ==
  /\ signin.pc = "capturing"
  /\ task["signIn"].pc = "done"
  /\ signin' = [signin EXCEPT !.pc = "returned",
                  !.returned = IF task["signIn"].warned = ""
                               THEN "true" ELSE "false"]
  /\ shown' = Quiet
  /\ calls' = NoCalls
  /\ UNCHANGED <<leads, requests, now, selectedLead, pc, run, config, task, view>>

signInReturns ==
  /\ signin.pc = "capturing"
  /\ task["signIn"].pc = "done"
  /\ signin' = [signin EXCEPT !.pc = "returned", !.returned = "true"]
  /\ shown' = Quiet
  /\ calls' = NoCalls
  /\ UNCHANGED <<leads, requests, now, selectedLead, pc, run, config, task, view>>

\* Users who sign in, one sign-in after the other; within a sign-in the run
\* started by signIn and the run started by the callback take their steps in
\* any order.
NextSignIn ==
  \/ \E userProfile \in LoginProfiles, failed \in BOOLEAN :
       signIn(userProfile, failed)
  \/ onSignedIn
  \/ \E t \in Tasks : checkExistingLead(t)
  \/ \E t \in Tasks : insertLoginLead(t)
  \/ signInReturns

SpecSignIn == Init /\ [][NextSignIn]_vars


\* The public enquiry form with contact values that contain the separator
\* and the placeholders of the dedup key.
KeyInputs ==
  [contact_email : {NoText, <<"a">>, <<"no-email">>, <<"a", "|", "b">>},
   contact_phone : {NoText, <<"5">>, <<"b", "|", "no-phone">>}]

NextKeys ==
  \E input \in KeyInputs : createEnquiryLead(input, MaxEnquiryLeads)

SpecKeys == Init /\ [][NextKeys]_vars

\* ------------------------------------------------------------ the lead list
\* the leads that list() puts on the page, with the fields the search reads
ListedLeads ==
  [contact_name : {NoText, <<"a">>, <<"A", "b">>},
   contact_email : {NoText, <<"b">>},
   contact_phone : {NoText},
   organization_name : {NoText, <<"b">>},
   stage : {"New"}, source : {"Enquiry", "Login"}]

\* what a user can type into the search box
SearchQueries ==
  {NoText, <<"a">>, <<"B">>, <<" ">>, <<"a", "b">>, <<"b", " ", "b">>}

\* String.prototype.includes
includes(target, query) ==
  \E i \in 0..(Len(target) - Len(query)) :
    SubSeq(target, i + 1, i + Len(query)) = query

\* Array.prototype.filter(Boolean) on texts: null, undefined and '' go
filterBoolean(texts) ==
  LET nonEmpty(text) == text # NoText IN SelectSeq(texts, nonEmpty)

\* Array.prototype.join(' ')
RECURSIVE joinWithSpace(_)
joinWithSpace(texts) ==
  IF texts = << >> THEN NoText
  ELSE IF Len(texts) = 1 THEN texts[1]
  ELSE texts[1] \o <<" ">> \o joinWithSpace(Tail(texts))

\* the text that the search looks into
searchTarget(lead) ==
  toLowerCase(joinWithSpace(filterBoolean(
    <<lead.contact_name, lead.contact_email, lead.contact_phone,
      lead.organization_name>>)))

\* the callback of leads.filter in filteredLeads
keepsLead(lead, searchQuery, stageFilter, sourceFilter) ==
  IF stageFilter # "All" /\ lead.stage # stageFilter THEN FALSE
  ELSE IF sourceFilter # "All" /\ lead.source # sourceFilter THEN FALSE
  ELSE IF searchQuery # NoText
    THEN includes(searchTarget(lead), toLowerCase(searchQuery))
  ELSE TRUE

filteredLeads(rows, searchQuery, stageFilter, sourceFilter) ==
  LET keeps(lead) == keepsLead(lead, searchQuery, stageFilter, sourceFilter)
  IN SelectSeq(rows, keeps)

\* a render of the page: useMemo recomputes filteredLeads from the state
render(v) ==
  [v EXCEPT !.filteredLeads =
     filteredLeads(v.leads, v.searchQuery, v.stageFilter, v.sourceFilter)]

\* the page's own steps leave everything else alone
viewOnly ==
  /\ shown' = Quiet
  /\ calls' = NoCalls
  /\ UNCHANGED <<leads, requests, now, selectedLead, pc, run, config, auth>>

setSearchQuery(value) ==
  /\ value # view.searchQuery
  /\ view' = render([view EXCEPT !.searchQuery = value])
  /\ viewOnly

setStageFilter(value) ==
  /\ value # view.stageFilter
  /\ view' = render([view EXCEPT !.stageFilter = value])
  /\ viewOnly

setSourceFilter(value) ==
  /\ value # view.sourceFilter
  /\ view' = render([view EXCEPT !.sourceFilter = value])
  /\ viewOnly

\* the lists that the page can have loaded
ListedSeqs == UNION {[1..n -> ListedLeads] : n \in 1..MaxListed}

\* the page after list() has answered, untouched search box and filters
InitFilter ==
  /\ leads = << >>
  /\ requests = << >>
  /\ now = 1
  /\ selectedLead = [c \in Clients |-> NoLead]
  /\ pc = [c \in Clients |-> "idle"]
  /\ run = [c \in Clients |-> NoRun]
  /\ shown = Quiet
  /\ calls = NoCalls
  /\ session = [c \in Clients |-> Operator(IF c = "c1" THEN 1 ELSE 2)]
  /\ conversionEnabled = ENABLE_LEAD_CONVERSION
  /\ signin = SignedOut
  /\ task = [t \in Tasks |-> NoTask]
  /\ \E rows \in ListedSeqs : view = render([NoView EXCEPT !.leads = rows])

NextFilter ==
  \/ \E value \in SearchQueries : setSearchQuery(value)
  \/ \E value \in {"All"} \cup LeadStages : setStageFilter(value)
  \/ \E value \in {"All"} \cup LeadSources : setSourceFilter(value)

SpecFilter == InitFilter /\ [][NextFilter]_vars


\* ------------------------------------------------------------------ claims
\* trimming and lower-casing, as the claims speak of them
canonical(text) == toLowerCase(trim(text))

noContact(row) == row.contact_email = NoText /\ row.contact_phone = NoText

FailedToast == Show("Failed to update lead stage.")

\* C1: every change of a lead's persisted stage follows an edge of the
\* transition table, whichever operation writes the row.
C1_StageChangesFollowEdges ==
  [][\A id \in LeadIds :
       leads'[id].stage # leads[id].stage
         => leads'[id].stage \in getStageActions(leads[id].stage)]_vars

\* C2: a stage-change request to a stage that the table does not allow from
\* the lead's persisted stage is rejected with an error and writes nothing.
C2_IllegalRequestRejected ==
  [][\A c \in Clients, nextStage \in LeadStages, reason \in ReasonTexts :
       (/\ handleStageChange(c, nextStage, reason)
        /\ nextStage \notin getStageActions(leads[selectedLead[c].id].stage))
       => (/\ leads' = leads
           /\ requests' = requests
           /\ pc'[c] = "idle"
           /\ shown' \notin {Quiet, FailedToast}
           /\ shown' \notin {LeadMoved(stage) : stage \in LeadStages})]_vars

\* C3: every lead whose persisted stage is Converted carries the id of an
\* existing service request whose lead_id is that lead.
C3_ConvertedHasRequest ==
  \A id \in LeadIds :
    leads[id].stage = "Converted"
      => /\ leads[id].service_request_id \in 1..Len(requests)
         /\ requests[leads[id].service_request_id].lead_id = id

\* C4: when the runs of the conversion follow one another, a lead never has
\* more than one service request, and every run that reaches the update of
\* the lead, like the lead row itself, carries the id of that one request.
C4_ConversionIdempotent ==
  \A id \in LeadIds :
    LET rs == {r \in 1..Len(requests) : requests[r].lead_id = id} IN
    /\ Cardinality(rs) <= 1
    /\ leads[id].service_request_id # Null => rs = {leads[id].service_request_id}
    /\ \A c \in Clients :
         (pc[c] = "update" /\ selectedLead[c].id = id)
           => rs = {run[c].updates.service_request_id}

\* a second run, started from a lead object without a request id after the
\* first run has converted the lead, stands before its update
C4_SecondRunAdopts ==
  \E c \in Clients :
    /\ pc[c] = "update"
    /\ selectedLead[c].service_request_id = Null
    /\ leads[selectedLead[c].id].stage = "Converted"
    /\ Len(requests) = 1

\* C5: when the lookup or the insert of a conversion fails, the run ends
\* without a write: the lead rows are what they were.
C5_FailedConversionWritesNothing ==
  [][\A c \in Clients :
       (\/ /\ handleStageChange(c, "Converted", NoText)
           /\ selectedLead[c].service_request_id = Null
           /\ shown' = FailedToast
        \/ /\ pc[c] = "insert"
           /\ pc'[c] = "idle")
       => (leads' = leads /\ requests' = requests)]_vars

\* a conversion has just failed before any service request existed
C5_ConversionFailedEarly ==
  /\ shown = FailedToast
  /\ requests = << >>
  /\ \E c \in Clients : selectedLead[c] # NoLead
  /\ \A c \in Clients :
       /\ pc[c] = "idle"
       /\ selectedLead[c] # NoLead
            => /\ selectedLead[c].stage = "Qualified"
               /\ leads[selectedLead[c].id].stage = "Qualified"
               /\ leads[selectedLead[c].id].converted_at = Null

C7_EmptyContactRejected ==
  [][\A input \in AllEnquiryInputs :
       (/\ createEnquiryLead(input, MaxEnquiryLeads)
        /\ trim(input.contact_email) = NoText
        /\ trim(input.contact_phone) = NoText)
       => (leads' = leads /\ shown' = Show("Email or phone is required"))]_vars

\* the table holds a row and a submission has just been refused
C7_Refused ==
  /\ shown = Show("Email or phone is required")
  /\ Len(leads) >= 1
  /\ leads[Len(leads)].source = "Enquiry"

\* C8: a request to Disqualified whose reason is empty after trimming is
\* refused without a write; with another reason it is not refused, it ends
\* with the success toast unless the store fails, and whenever it succeeds or
\* writes, the row has stage Disqualified and the trimmed reason.
C8_DisqualifyReason ==
  [][\A c \in Clients, reason \in ReasonTexts :
       handleStageChange(c, "Disqualified", reason)
       => IF trim(reason) = NoText
          THEN /\ leads' = leads
               /\ shown' = Show("Disqualification reason is required.")
          ELSE /\ shown' \in {LeadMoved("Disqualified"), FailedToast}
               /\ (shown' = LeadMoved("Disqualified") \/ leads' # leads)
                    => leads' = [leads EXCEPT ![selectedLead[c].id] =
                                   [@ EXCEPT !.stage = "Disqualified",
                                             !.disqualify_reason = trim(reason)]]]_vars

\* a lead has just been disqualified with a reason
C8_Disqualified ==
  /\ shown = LeadMoved("Disqualified")
  /\ \E id \in LeadIds :
       /\ leads[id].stage = "Disqualified"
       /\ leads[id].disqualify_reason = <<"x">>

\* C9: a request to Converted for a lead whose stored email and phone are both
\* empty is refused: nothing is written and no handler is left in flight.
C9_ConversionNeedsContact ==
  [][\A c \in Clients :
       (/\ handleStageChange(c, "Converted", NoText)
        /\ noContact(leads[selectedLead[c].id]))
       => (/\ shown' = Show("Email or phone is required to convert a lead.")
           /\ leads' = leads
           /\ requests' = requests
           /\ pc' = pc)]_vars

\* the conversion of a Qualified lead without contact has just been refused
C9_Refused ==
  /\ shown = Show("Email or phone is required to convert a lead.")
  /\ \E id \in LeadIds :
       /\ leads[id].stage = "Qualified"
       /\ noContact(leads[id])
       /\ leads[id].qualified_at # Null

\* C10: qualified_at and converted_at, once set, keep their value.
C10_TimestampsWrittenOnce ==
  [][\A id \in LeadIds :
       /\ leads[id].qualified_at # Null
            => leads'[id].qualified_at = leads[id].qualified_at
       /\ leads[id].converted_at # Null
            => leads'[id].converted_at = leads[id].converted_at]_vars

\* C11: a successful move of a lead from Disqualified, where it has a reason,
\* back to Qualifying leaves the row with no disqualify_reason.
C11_ReasonClearedOnRequalify ==
  [][\A c \in Clients :
       (/\ handleStageChange(c, "Qualifying", NoText)
        /\ selectedLead[c].stage = "Disqualified"
        /\ leads[selectedLead[c].id].stage = "Disqualified"
        /\ leads[selectedLead[c].id].disqualify_reason # NoText
        /\ shown' = LeadMoved("Qualifying"))
       => leads'[selectedLead[c].id].disqualify_reason = NoText]_vars

\* C12: once a lead's stage is Converted, no step changes its stage, its
\* contact fields, converted_at or service_request_id.
C12_ConvertedAbsorbing ==
  [][\A id \in LeadIds :
       leads[id].stage = "Converted"
       => /\ leads'[id].stage = "Converted"
          /\ leads'[id].contact_email = leads[id].contact_email
          /\ leads'[id].contact_phone = leads[id].contact_phone
          /\ leads'[id].converted_at = leads[id].converted_at
          /\ leads'[id].service_request_id = leads[id].service_request_id]_vars

C15_OneOpenLoginLead ==
  \A user \in Users :
    Cardinality({i \in LeadIds :
                   /\ leads[i].source = "Login"
                   /\ leads[i].related_user_id = user
                   /\ leads[i].stage \notin {"Converted", "Disqualified"}}) <= 1

\* the errors with which handleStageChange and createEnquiryLead refuse a
\* request for lack of permission, for its input, or for the flag
Rejections ==
  {Show("You do not have permission to update leads."),
   Show("Disqualification reason is required."),
   Show("Converted leads are read-only."),
   Show("Email or phone is required to convert a lead."),
   Show("Lead conversion is disabled until next release."),
   Show("Email or phone is required")}

C17_UpsertKeepsStage ==
  [][\A input \in EnquiryInputs :
       (/\ createEnquiryLead(input, MaxLeads)
        /\ shown'.text = "returned"
        /\ Len(leads') = Len(leads))
       => leads' = [leads EXCEPT ![shown'.id] =
                      [@ EXCEPT !.contact_email = input.contact_email,
                                !.contact_phone = input.contact_phone]]]_vars

\* C18: a lead has a disqualify_reason exactly when its stage is Disqualified.
C18_ReasonIffDisqualified ==
  \A id \in LeadIds :
    leads[id].stage = "Disqualified" <=> leads[id].disqualify_reason # NoText

\* C19: a step that adds a lead row adds it with stage New.
C19_CreatedNew ==
  [][Len(leads') > Len(leads) => leads'[Len(leads')].stage = "New"]_vars

\* C20: no step changes the source of an existing lead.
C20_SourceNeverChanges ==
  [][\A id \in LeadIds : leads'[id].source = leads[id].source]_vars

\* C21: however the runs interleave, a client inserts at most one service
\* request for a lead, so a lead has at most as many as there are clients;
\* the state with two rows for one lead is the witness below.
C21_OneRequestPerClient ==
  \A id \in LeadIds :
    Cardinality({r \in 1..Len(requests) : requests[r].lead_id = id})
      <= Cardinality(Clients)

\* both clients hold the lead as Qualified without a request id, and the
\* table has two service requests for it
C21_TwoRequestsForOneLead ==
  \E id \in LeadIds :
    /\ \A c \in Clients :
         /\ selectedLead[c] # NoLead
         /\ selectedLead[c].id = id
         /\ selectedLead[c].stage = "Qualified"
         /\ selectedLead[c].service_request_id = Null
    /\ Cardinality({r \in 1..Len(requests) : requests[r].lead_id = id}) = 2

\* the Login leads in New that the table holds for a user
newLoginLeadsOf(user) ==
  {i \in 1..Len(leads) : /\ leads[i].related_user_id = user
                         /\ leads[i].source = "Login"
                         /\ leads[i].stage = "New"}

\* C22: a run of createLoginLeadIfNeeded inserts only after its own check
\* found no open lead, so overlapping runs give a user at most one Login
\* lead per run; the state with two of them is the witness below.
C22_OneLoginLeadPerRun ==
  \A user \in Users :
    Cardinality(newLoginLeadsOf(user)) <= Cardinality(Tasks)

\* both runs for the same internal user have ended without a warning and
\* the table holds two Login leads in New for that user
C22_TwoLoginLeadsForOneUser ==
  \E user \in Users :
    /\ \A t \in Tasks :
         /\ task[t].pc = "done"
         /\ task[t].warned = ""
         /\ task[t].userProfile.user_id = user
         /\ task[t].userProfile.user_segment = "internal"
    /\ Cardinality(newLoginLeadsOf(user)) = 2

\* C26: one sign-in creates one Login lead: whenever a run of
\* createLoginLeadIfNeeded inserts a lead, the user has no open lead at that
\* moment, although signIn and the SIGNED_IN callback both start a run.
C26_SignInCreatesOneLead ==
  [][leads' # leads =>
       openLeadsOf(leads, leads'[Len(leads')].related_user_id) = {}]_vars

\* C29: a failure of the login lead capture never fails the sign-in: signIn
\* returns true with session and profile set whatever its run warned, and a
\* run whose existence check failed ends there without an insert.
C29_CaptureFailureKeepsSignIn ==
  [][/\ (signin.pc = "capturing" /\ signin'.pc = "returned") =>
          /\ signin'.returned = "true"
          /\ signin'.session = task["signIn"].userProfile.user_id
          /\ signin'.supabaseUser = task["signIn"].userProfile.user_id
          /\ signin'.profile = task["signIn"].userProfile
     /\ \A t \in Tasks :
          (task[t].pc = "check" /\
           task'[t].warned = "Failed to check existing lead:") =>
            /\ task'[t].pc = "done"
            /\ leads' = leads]_vars

\* signIn returned true with session and profile set although its run of
\* createLoginLeadIfNeeded failed at the existence check, and no lead exists
C29_SignedInAfterFailedCheck ==
  /\ signin.pc = "returned"
  /\ signin.returned = "true"
  /\ signin.session # Null
  /\ signin.profile = task["signIn"].userProfile
  /\ task["signIn"].pc = "done"
  /\ task["signIn"].warned = "Failed to check existing lead:"
  /\ leads = << >>

\* the updates that a step of client c's handleStageChange may hand to
\* onUpdate: those of the conversion in flight, or those of a click
C23_UpdatesOf(c) ==
  IF pc[c] = "update"
  THEN {run[c].updates}
  ELSE {stageUpdates(nextStage, reason, now) :
          nextStage \in LeadStages \ {"Converted"}, reason \in ReasonTexts}
       \cup {withField(stageUpdates("Converted", NoText, now),
                       "service_request_id", selectedLead[c].service_request_id)}

\* C23: the activity log is written only in a step whose lead update has
\* succeeded, and when the log write then fails the update stays written.
C23_LogOnlyAfterUpdate ==
  [][(\E i \in 1..Len(calls') : calls'[i] = "log") =>
       /\ calls' = <<"update", "list", "log">>
       /\ \E c \in Clients :
            /\ selectedLead[c] # NoLead
            /\ pc'[c] = "idle"
            /\ \E updates \in C23_UpdatesOf(c) :
                 leads' = [leads EXCEPT ![selectedLead[c].id] =
                             applyUpdates(@, updates)]]_vars

\* the log write failed after the update New -> Qualifying: the error toast
\* is shown and the row is in Qualifying
C23_LogFailedUpdateKept ==
  /\ calls = <<"update", "list", "log">>
  /\ shown = FailedToast
  /\ \E c \in Clients :
       /\ selectedLead[c] # NoLead
       /\ selectedLead[c].stage = "New"
       /\ leads[selectedLead[c].id].stage = "Qualifying"
       /\ \A d \in Clients \ {c} : selectedLead[d] = NoLead

\* C24: the service request that a conversion inserts has the lead's id,
\* status Open and the owner, source and contact values that the lead has
\* at that moment, and no later step changes a row of the table.
C24_RequestSnapshotsLead ==
  [][/\ Len(requests') >= Len(requests)
     /\ \A r \in 1..Len(requests) : requests'[r] = requests[r]
     /\ Len(requests') > Len(requests) =>
          LET row == requests'[Len(requests')]
              lead == leads[row.lead_id]
          IN /\ row.status = "Open"
             /\ row.owner_id = lead.owner_id
             /\ row.source = lead.source
             /\ row.contact_email = lead.contact_email
             /\ row.contact_phone = lead.contact_phone]_vars

\* the query occurs inside one of the four fields, both lower-cased
C25_OneFieldContains(lead, searchQuery) ==
  \E field \in {lead.contact_name, lead.contact_email, lead.contact_phone,
                lead.organization_name} :
    \E i \in 0..(Len(field) - Len(searchQuery)) :
      toLowerCase(SubSeq(field, i + 1, i + Len(searchQuery)))
        = toLowerCase(searchQuery)

\* C25: with both filters on 'All' the rendered list holds exactly the leads
\* of which one single field contains the lower-cased query; an empty query
\* keeps every lead.
C25_SearchMatchesOneField ==
  (view.stageFilter = "All" /\ view.sourceFilter = "All") =>
    LET kept(lead) == \/ view.searchQuery = NoText
                      \/ C25_OneFieldContains(lead, view.searchQuery)
    IN view.filteredLeads = SelectSeq(view.leads, kept)

\* C27: the dedup key is injective on accepted inputs: a submission lands on
\* an existing row only when that row has the same trimmed, lower-cased
\* email and phone, also for inputs that contain '|', 'no-email' or
\* 'no-phone'.
C27_DedupKeyInjective ==
  [][\A input \in KeyInputs :
       (/\ createEnquiryLead(input, MaxEnquiryLeads)
        /\ shown'.text = "returned"
        /\ Len(leads') = Len(leads))
       => /\ canonical(leads[shown'.id].contact_email)
               = canonical(input.contact_email)
          /\ canonical(leads[shown'.id].contact_phone)
               = canonical(input.contact_phone)]_vars

\* C28: whenever no conversion is in flight, every service request that a
\* conversion created belongs to a lead whose stage is Converted and whose
\* service_request_id is that request's id.
C28_RequestOfConvertedLead ==
  (\A c \in Clients : pc[c] = "idle") =>
    \A r \in 1..Len(requests) :
      /\ requests[r].lead_id \in LeadIds
      /\ leads[requests[r].lead_id].stage = "Converted"
      /\ leads[requests[r].lead_id].service_request_id = r

\* C30: a click on "Assign to me" changes at most owner_id of the drawer's
\* lead: every other column of every lead and the service requests stay as
\* they are, whatever the lead's stage.
C30_AssignWritesOwnerOnly ==
  [][\A c \in Clients :
       handleAssignToMe(c) =>
         /\ requests' = requests
         /\ Len(leads') = Len(leads)
         /\ \A id \in LeadIds :
              /\ \A f \in DOMAIN leads[id] \ {"owner_id"} :
                   leads'[id][f] = leads[id][f]
              /\ leads'[id].owner_id # leads[id].owner_id =>
                   /\ id = selectedLead[c].id
                   /\ leads'[id].owner_id = session[c].user]_vars

\* a Converted lead without an owner was assigned through the drawer: it is
\* still Converted, still points to its request, and has the operator as owner
C30_ConvertedLeadAssigned ==
  /\ shown = Show("Lead assigned to you.")
  /\ \E c \in Clients :
       /\ selectedLead[c] # NoLead
       /\ selectedLead[c].stage = "Converted"
       /\ selectedLead[c].owner_id = Null
       /\ leads[selectedLead[c].id].stage = "Converted"
       /\ leads[selectedLead[c].id].service_request_id # Null
       /\ leads[selectedLead[c].id].owner_id = session[c].user
====
